---------------------------- MODULE Spec2Model ----------------------------
(***************************************************************************)
(* Model of media/categorise.py: the word classifiers, _tokenise_tag,      *)
(* _tokenise and is_anime.  A Python str is a sequence of one-character    *)
(* strings, so that slicing, searching, splitting and stripping are        *)
(* computed the way the str methods and the regular expressions compute    *)
(* them.                                                                   *)
(***************************************************************************)
EXTENDS Integers, Sequences, FiniteSets, TLC

VARIABLES filename,      \* the argument of _tokenise / is_anime
          string,        \* _tokenise: the local `string`, the text still to split
          tags,          \* _tokenise: the list re.findall returned
          i,             \* _tokenise: index of the tag the for loop is at
          tokens,        \* _tokenise: the local `tokens`
          to_tokenise,   \* _tokenise: the local `to_tokenise`
          pc,            \* position in the function being run
          anime,         \* is_anime: the value returned
          word,          \* classifiers: the word
          variant,       \* classifiers: the same word in another letter case
          verdict        \* classifiers: what the four predicates returned

vars == <<filename, string, tags, i, tokens, to_tokenise, pc, anime, word,
          variant, verdict>>

-----------------------------------------------------------------------------
(* str primitives *)

Digits == {"0","1","2","3","4","5","6","7","8","9"}

\* string.hexdigits
hexdigits == Digits \cup {"a","b","c","d","e","f","A","B","C","D","E","F"}

\* the characters str.strip, str.lstrip and str.rstrip remove
Whitespace == {" ", "\t", "\n", "\r", "\f"}

UpperToLower ==
    [c \in {"A","B","C","D","E","F","G","H","I","J","K","L","M","N","O","P",
            "Q","R","S","T","U","V","W","X","Y","Z"} |->
       CASE c = "A" -> "a" [] c = "B" -> "b" [] c = "C" -> "c" [] c = "D" -> "d"
         [] c = "E" -> "e" [] c = "F" -> "f" [] c = "G" -> "g" [] c = "H" -> "h"
         [] c = "I" -> "i" [] c = "J" -> "j" [] c = "K" -> "k" [] c = "L" -> "l"
         [] c = "M" -> "m" [] c = "N" -> "n" [] c = "O" -> "o" [] c = "P" -> "p"
         [] c = "Q" -> "q" [] c = "R" -> "r" [] c = "S" -> "s" [] c = "T" -> "t"
         [] c = "U" -> "u" [] c = "V" -> "v" [] c = "W" -> "w" [] c = "X" -> "x"
         [] c = "Y" -> "y" [] c = "Z" -> "z"]

\* str.lower()
Lower(s) ==
    [k \in 1..Len(s) |-> IF s[k] \in DOMAIN UpperToLower THEN UpperToLower[s[k]]
                         ELSE s[k]]

\* str.isnumeric(): false for the empty string
IsNumeric(s) == Len(s) > 0 /\ \A k \in 1..Len(s) : s[k] \in Digits

\* s[from:] as a 1-based suffix
Drop(s, n) == SubSeq(s, n + 1, Len(s))

\* whether sep occurs in s at index k
OccursAt(s, sep, k) ==
    /\ k >= 1
    /\ k + Len(sep) - 1 <= Len(s)
    /\ SubSeq(s, k, k + Len(sep) - 1) = sep

\* str.find, 1-based; 0 when sep does not occur
Find(s, sep) ==
    IF \E k \in 1..Len(s) : OccursAt(s, sep, k)
    THEN CHOOSE k \in 1..Len(s) :
             OccursAt(s, sep, k) /\ \A j \in 1..(k-1) : ~OccursAt(s, sep, j)
    ELSE 0

\* str.count of a single character
Count(s, c) == Cardinality({k \in 1..Len(s) : s[k] = c})

\* str.split(sep, maxsplit=1): one part when sep does not occur, else two
SplitOnce(s, sep) ==
    LET k == Find(s, sep) IN
    IF k = 0 THEN <<s>>
    ELSE <<SubSeq(s, 1, k - 1), Drop(s, k + Len(sep) - 1)>>

\* str.split(c) for a one-character separator: every occurrence splits
RECURSIVE SplitAll(_, _)
SplitAll(s, c) ==
    LET k == Find(s, <<c>>) IN
    IF k = 0 THEN <<s>>
    ELSE <<SubSeq(s, 1, k - 1)>> \o SplitAll(Drop(s, k), c)

RECURSIVE RStrip(_)
RStrip(s) ==
    IF Len(s) > 0 /\ s[Len(s)] \in Whitespace THEN RStrip(SubSeq(s, 1, Len(s) - 1))
    ELSE s

RECURSIVE LStrip(_)
LStrip(s) ==
    IF Len(s) > 0 /\ s[1] \in Whitespace THEN LStrip(Drop(s, 1))
    ELSE s

\* int() of a string of decimal digits
DigitValue ==
    [c \in Digits |->
       CASE c = "0" -> 0 [] c = "1" -> 1 [] c = "2" -> 2 [] c = "3" -> 3
         [] c = "4" -> 4 [] c = "5" -> 5 [] c = "6" -> 6 [] c = "7" -> 7
         [] c = "8" -> 8 [] c = "9" -> 9]

RECURSIVE ToInt(_)
ToInt(s) ==
    IF Len(s) = 0 THEN 0
    ELSE 10 * ToInt(SubSeq(s, 1, Len(s) - 1)) + DigitValue[s[Len(s)]]

-----------------------------------------------------------------------------
(* constants of the module *)

KNOWN_GROUPS ==
    { <<"E","r","a","i","-","r","a","w","s">>, <<"H","o","r","r","i","b","l","e","S","u","b","s">>, <<"F","F","F">>, <<"C","o","m","m","i","e">>,
      <<"S","a","l","l","y","S","u","b","s">>, <<"C","B","M">>, <<"F","a","t","e","-","A","k","u","m","a">>, <<"n","i","i","z","k">>, <<"O","Z","C">>,
      <<"k","u","c","h","i","k","i","r","u","k","i","a">>, <<"E","v","i","l","_","G","e","n","u","i","s">>, <<"i","l","l","y","a","_">>, <<"B","e","a","t","r","i","c","e","-","R","a","w","s">>,
      <<"Z","u","r","a","k","o">>, <<"N","o","o","b","S","u","b","s">>, <<"O","T","R">>, <<"O","r","p","h","a","n","-","f","u","s","s","o","i","r">>, <<"l","l","e","u","r">>,
      <<"R","E","V","O">>, <<"d","e","a","n","z","e","l">>, <<"R","H">>, <<"F","M","A","1","3","9","4">>, <<"R","2","J","x","R","1">>, <<"E","l","y","s","i","u","m">>,
      <<"A","f","r","o">>, <<"K","a","m","e","t","s","u">>, <<"b","x","y","h">>, <<"B","S","S">>, <<"N","O","P">>, <<"T","e","a","m"," ","N","a","n","b","a","n">>,
      <<"3","5","m","m">> }

SourceWords ==
    { <<"b","l","u","r","a","y">>, <<"b","l","u","-","r","a","y">>, <<"b","d">>, <<"b","d","r","i","p">>, <<"d","v","d">>, <<"d","v","d","r","i","p">>, <<"w","e","b">>,
      <<"w","e","b","r","i","p">>, <<"h","d","t","v">>, <<"h","a","r","d","s","u","b">>, <<"v","r","v">> }

AudioWords ==
    { <<"a","a","c">>, <<"a","c","3">>, <<"f","l","a","c">>, <<"v","o","r","b","i","s">>, <<"d","t","s">>, <<"a","a","c","_","5",".","1">>, <<"d","t","s","-","e","s">>, <<"2","c","h">> }

LanguageWords == { <<"j","p">>, <<"e","n">>, <<"d","u","a","l">> }

VideoWords == { <<"h","e","v","c">>, <<"h","i","1","0","p">>, <<"x","2","6","4">>, <<"x","2","6","5">>, <<"h","2","6","4">>, <<"1","0","b","i","t">> }

\* the characters the generic path splits a tag on, in the order tried
Delimiters == <<" ", ",", "-", ".", "_">>

-----------------------------------------------------------------------------
(* word classifiers *)

IsSourceTag(w) == Lower(w) \in SourceWords

IsAudioTag(w) ==
    IF Lower(w) \in AudioWords THEN TRUE
    ELSE IF /\ Len(w) = 3
            /\ w[1] \in Digits
            /\ w[2] = "."
            /\ w[3] \in Digits THEN TRUE
    ELSE FALSE

IsLanguageTag(w) == Lower(w) \in LanguageWords

\* the pattern branches compare with 'p' and 'x' as written, without lower()
IsVideoTag(w) ==
    IF Lower(w) \in VideoWords THEN TRUE
    ELSE IF IsNumeric(SubSeq(w, 1, Len(w) - 1)) /\ w[Len(w)] = "p" THEN TRUE
    ELSE IF Count(w, "x") = 1
         THEN LET parts == SplitAll(w, "x") IN
              IsNumeric(parts[1]) /\ IsNumeric(parts[2])
    ELSE FALSE


-----------------------------------------------------------------------------
(* tokens: class Token and its subclasses; value is a str, an int for
   EpisodeNumber *)

Tok(type, value) == [type |-> type, value |-> value]

AudioQuality(v) == Tok("AudioQuality", v)
VideoQuality(v) == Tok("VideoQuality", v)
Source(v) == Tok("Source", v)
SubGroup(v) == Tok("SubGroup", v)
AudioLanguage(v) == Tok("AudioLanguage", v)
SubtitlesLanguage(v) == Tok("SubtitlesLanguage", v)
Hash(v) == Tok("Hash", v)
Title(v) == Tok("Title", v)
EpisodeNumber(n) == Tok("EpisodeNumber", n)

-----------------------------------------------------------------------------
(* _tokenise_tag *)

\* the for loop over words: toks and unclassified are the two local lists
RECURSIVE TokeniseTagLoop(_, _, _, _)
TokeniseTagLoop(words, k, toks, unclassified) ==
    IF k > Len(words) THEN [tokens |-> toks, unclassified |-> unclassified]
    ELSE LET w == words[k] IN
         IF IsAudioTag(w)
         THEN TokeniseTagLoop(words, k + 1, Append(toks, AudioQuality(w)), unclassified)
         ELSE IF IsVideoTag(w)
         THEN TokeniseTagLoop(words, k + 1, Append(toks, VideoQuality(w)), unclassified)
         ELSE IF IsSourceTag(w)
         THEN TokeniseTagLoop(words, k + 1, Append(toks, Source(w)), unclassified)
         ELSE IF IsLanguageTag(w)
         THEN TokeniseTagLoop(words, k + 1, Append(toks, AudioLanguage(w)), unclassified)
         ELSE TokeniseTagLoop(words, k + 1, toks, Append(unclassified, w))

\* raised: the RuntimeError; the tokens are returned only when it is not raised
TokeniseTag(words) ==
    LET r == TokeniseTagLoop(words, 1, <<>>, <<>>) IN
    IF r.unclassified # <<>> THEN [raised |-> TRUE, tokens |-> <<>>]
    ELSE [raised |-> FALSE, tokens |-> r.tokens]

-----------------------------------------------------------------------------
(* _tokenise: the regular expressions *)

\* index of the first c in s at or after p, 0 if none
RECURSIVE IndexFrom(_, _, _)
IndexFrom(s, c, p) ==
    IF p > Len(s) THEN 0
    ELSE IF s[p] = c THEN p
    ELSE IndexFrom(s, c, p + 1)

\* re.findall(r'\[[^]]+]', s): the <<first, last>> index pairs of the
\* non-overlapping matches, scanning from p
RECURSIVE FindSpans(_, _)
FindSpans(s, p) ==
    IF p > Len(s) THEN <<>>
    ELSE IF s[p] = "["
         THEN LET q == IndexFrom(s, "]", p + 1) IN
              IF q >= p + 2 THEN <<(<<p, q>>)>> \o FindSpans(s, q + 1)
              ELSE FindSpans(s, p + 1)
    ELSE FindSpans(s, p + 1)

FindAll(s) ==
    LET spans == FindSpans(s, 1) IN
    [k \in 1..Len(spans) |-> SubSeq(s, spans[k][1], spans[k][2])]

\* re.match(r'Disc \d', v) or re.match(r'v\d', v) or v in {...}: match anchors
\* at the start only
IsNoise(v) ==
    \/ (Len(v) >= 6 /\ SubSeq(v, 1, 5) = <<"D","i","s","c"," ">> /\ v[6] \in Digits)
    \/ (Len(v) >= 2 /\ v[1] = "v" /\ v[2] \in Digits)
    \/ v \in { <<"D","i","r","e","c","t","o","r","s"," ","C","u","t">>, <<"C","l","e","a","n"," ","S","c","r","e","e","n">> }

\* number of digits of s starting at p
RECURSIVE DigitRun(_, _)
DigitRun(s, p) ==
    IF p <= Len(s) /\ s[p] \in Digits THEN 1 + DigitRun(s, p + 1) ELSE 0

\* (v\d+)? from p: the index after it
AfterVersion(t, p) ==
    LET d == IF p <= Len(t) /\ t[p] = "v" THEN DigitRun(t, p + 1) ELSE 0 IN
    IF d > 0 THEN p + 1 + d ELSE p

\* ( END)? from p: the index after it
AfterEnd(t, p) == IF OccursAt(t, <<" ","E","N","D">>, p) THEN p + 4 ELSE p

\* $ at p: the end of the string, or just before a newline that ends it
AtEnd(t, p) == p = Len(t) + 1 \/ (p = Len(t) /\ t[p] = "\n")

\* the episode is t[p1..p2-1]; the second episode, if any, the d2 digits from q
TailResult(t, p1, p2, q, d2) ==
    [matched        |-> /\ p2 > p1
                        /\ AtEnd(t, AfterEnd(t, AfterVersion(t, IF d2 > 0 THEN q + d2
                                                                ELSE p2))),
     episode        |-> SubSeq(t, p1, p2 - 1),
     has_second     |-> d2 > 0,
     second_episode |-> SubSeq(t, q, q + d2 - 1)]

\* \+E? from p2: where the digits of the second episode would start
SecondStart(t, p2) == IF p2 + 1 <= Len(t) /\ t[p2 + 1] = "E" THEN p2 + 2 ELSE p2 + 1

TailSecond(t, p1, p2) ==
    TailResult(t, p1, p2, SecondStart(t, p2),
               IF p2 <= Len(t) /\ t[p2] = "+" THEN DigitRun(t, SecondStart(t, p2))
               ELSE 0)

TailEpisode(t, p1) == TailSecond(t, p1, p1 + DigitRun(t, p1))

\* E?(\d+)(\+E?(\d+))?(v\d+)?( END)?$ matched against t from its start, group by
\* group as the regex engine does
MatchTail(t) == TailEpisode(t, IF Len(t) >= 1 /\ t[1] = "E" THEN 2 ELSE 1)

\* ^(.+?) - ...: the shortest name, of n >= 1 characters other than newline,
\* after which ' - ' and the tail match; n = 0 when there is none
RECURSIVE NameLen(_, _)
NameLen(s, n) ==
    IF n + 3 > Len(s) \/ s[n] = "\n" THEN 0
    ELSE IF OccursAt(s, <<" ","-"," ">>, n + 1) /\ MatchTail(Drop(s, n + 3)).matched THEN n
    ELSE NameLen(s, n + 1)

TitleFields(n, name, t) ==
    [matched        |-> n > 0,
     name           |-> name,
     episode        |-> t.episode,
     has_second     |-> t.has_second,
     second_episode |-> t.second_episode]

TitleOfLength(s, n) == TitleFields(n, SubSeq(s, 1, n), MatchTail(Drop(s, n + 3)))

\* re.match of the title/episode pattern against s
MatchTitle(s) == TitleOfLength(s, IF Len(s) = 0 THEN 0 ELSE NameLen(s, 1))

-----------------------------------------------------------------------------
(* _tokenise: one bracket tag *)

\* TryDelimiters without the try/except: the RuntimeError of the first split
\* that fails escapes
TryDelimitersUncaught(toks, value, k) ==
    IF TokeniseTag(SplitAll(value, Delimiters[k])).raised
    THEN [tokens |-> toks, success |-> FALSE, raised |-> TRUE]
    ELSE [tokens |-> toks \o TokeniseTag(SplitAll(value, Delimiters[k])).tokens,
          success |-> TRUE, raised |-> FALSE]

\* TryDelimiters with _tokenise_tag appending to the caller's list: the tokens
\* classified before a split failed stay in it
RECURSIVE TryDelimitersLeaky(_, _, _)
TryDelimitersLeaky(toks, value, k) ==
    IF k > Len(Delimiters) THEN [tokens |-> toks, success |-> FALSE, raised |-> FALSE]
    ELSE IF TokeniseTag(SplitAll(value, Delimiters[k])).raised
    THEN TryDelimitersLeaky(
             toks \o TokeniseTagLoop(SplitAll(value, Delimiters[k]), 1, <<>>, <<>>).tokens,
             value, k + 1)
    ELSE [tokens |-> toks \o TokeniseTag(SplitAll(value, Delimiters[k])).tokens,
          success |-> TRUE, raised |-> FALSE]

\* the for loop over the delimiters with its try/except/else: the tokens of
\* the first split _tokenise_tag accepts are appended; a RuntimeError is caught
\* and the next delimiter tried; raised tells whether an exception escaped
RECURSIVE TryDelimiters(_, _, _)
TryDelimiters(toks, value, k) ==
    IF k > Len(Delimiters) THEN [tokens |-> toks, success |-> FALSE, raised |-> FALSE]
    ELSE LET r == TokeniseTag(SplitAll(value, Delimiters[k])) IN
         IF r.raised THEN TryDelimiters(toks, value, k + 1)
         ELSE [tokens |-> toks \o r.tokens, success |-> TRUE, raised |-> FALSE]

\* ExtendWithTag with the hash test on the length alone
ExtendWithTagAnyEight(toks, value) ==
    IF value \in KNOWN_GROUPS
    THEN [tokens |-> Append(toks, SubGroup(value)), raised |-> FALSE]
    ELSE IF Len(value) = 8
    THEN [tokens |-> Append(toks, Hash(value)), raised |-> FALSE]
    ELSE IF value = <<"M","u","l","t","i","p","l","e"," ","S","u","b","t","i","t","l","e">>
    THEN [tokens |-> toks \o <<SubtitlesLanguage(<<"M","u","l","t","i","p","l","e">>), SubtitlesLanguage(<<"E","N">>)>>,
          raised |-> FALSE]
    ELSE IF value = <<"D","u","a","l"," ","A","u","d","i","o">>
    THEN [tokens |-> toks \o <<AudioLanguage(<<"E","N">>), AudioLanguage(<<"J","P">>)>>,
          raised |-> FALSE]
    ELSE IF IsNoise(value)
    THEN [tokens |-> toks, raised |-> FALSE]
    ELSE TryDelimiters(toks, value, 1)

\* ExtendWithTag without the 'Dual Audio' case: the value goes to the generic path
ExtendWithTagNoDualAudio(toks, value) ==
    IF value \in KNOWN_GROUPS
    THEN [tokens |-> Append(toks, SubGroup(value)), raised |-> FALSE]
    ELSE IF Len(value) = 8 /\ {value[k] : k \in 1..Len(value)} \ hexdigits = {}
    THEN [tokens |-> Append(toks, Hash(value)), raised |-> FALSE]
    ELSE IF value = <<"M","u","l","t","i","p","l","e"," ","S","u","b","t","i","t","l","e">>
    THEN [tokens |-> toks \o <<SubtitlesLanguage(<<"M","u","l","t","i","p","l","e">>), SubtitlesLanguage(<<"E","N">>)>>,
          raised |-> FALSE]
    ELSE IF IsNoise(value)
    THEN [tokens |-> toks, raised |-> FALSE]
    ELSE TryDelimiters(toks, value, 1)

\* the if/elif chain on the tag's value: what it does to the token list
ExtendWithTag(toks, value) ==
    IF value \in KNOWN_GROUPS
    THEN [tokens |-> Append(toks, SubGroup(value)), raised |-> FALSE]
    ELSE IF Len(value) = 8 /\ {value[k] : k \in 1..Len(value)} \ hexdigits = {}
    THEN [tokens |-> Append(toks, Hash(value)), raised |-> FALSE]
    ELSE IF value = <<"M","u","l","t","i","p","l","e"," ","S","u","b","t","i","t","l","e">>
    THEN [tokens |-> toks \o <<SubtitlesLanguage(<<"M","u","l","t","i","p","l","e">>), SubtitlesLanguage(<<"E","N">>)>>,
          raised |-> FALSE]
    ELSE IF value = <<"D","u","a","l"," ","A","u","d","i","o">>
    THEN [tokens |-> toks \o <<AudioLanguage(<<"E","N">>), AudioLanguage(<<"J","P">>)>>,
          raised |-> FALSE]
    ELSE IF IsNoise(value)
    THEN [tokens |-> toks, raised |-> FALSE]
    ELSE TryDelimiters(toks, value, 1)

-----------------------------------------------------------------------------
(* _tokenise, statement by statement *)

\* for tag in re.findall(r'\[[^]]+]', string)
FindTags ==
    /\ pc = "start"
    /\ tags' = FindAll(string)
    /\ i' = 1
    /\ pc' = "loop"
    /\ UNCHANGED <<filename, string, tokens, to_tokenise, anime, word, variant, verdict>>

\* value: str = tag[1:-1]
TagValue(tag) == SubSeq(tag, 2, Len(tag) - 1)

\* toks without the elements that occurred earlier in it
RECURSIVE WithoutRepeats(_)
WithoutRepeats(toks) ==
    IF Len(toks) = 0 THEN <<>>
    ELSE IF \E k \in 1..(Len(toks) - 1) : toks[k] = toks[Len(toks)]
    THEN WithoutRepeats(SubSeq(toks, 1, Len(toks) - 1))
    ELSE Append(WithoutRepeats(SubSeq(toks, 1, Len(toks) - 1)), toks[Len(toks)])

\* Iterate with a token list that keeps one of each token
IterateWithoutRepeats(r, parts, remainder) ==
    IF r.raised
    THEN /\ pc' = "raised"
         /\ UNCHANGED <<string, tokens, to_tokenise, i>>
    ELSE IF Len(parts) # 2
    THEN /\ pc' = "raised"
         /\ tokens' = r.tokens
         /\ UNCHANGED <<string, to_tokenise, i>>
    ELSE /\ tokens' = WithoutRepeats(r.tokens)
         /\ string' = LStrip(parts[2])
         /\ to_tokenise' = IF remainder # <<>> THEN Append(to_tokenise, remainder)
                           ELSE to_tokenise
         /\ i' = i + 1
         /\ pc' = "loop"

\* the body of the loop, given what the if/elif chain did (r) and the split of
\* the remaining string on the tag (parts).  Unpacking the split into two names
\* raises ValueError unless it has exactly two parts.
Iterate(r, parts, remainder) ==
    IF r.raised
    THEN /\ pc' = "raised"
         /\ UNCHANGED <<string, tokens, to_tokenise, i>>
    ELSE IF Len(parts) # 2
    THEN /\ pc' = "raised"
         /\ tokens' = r.tokens
         /\ UNCHANGED <<string, to_tokenise, i>>
    ELSE /\ tokens' = r.tokens
         /\ string' = LStrip(parts[2])
         /\ to_tokenise' = IF remainder # <<>> THEN Append(to_tokenise, remainder)
                           ELSE to_tokenise
         /\ i' = i + 1
         /\ pc' = "loop"

\* one iteration of the loop: classify the tag, then split the remaining
\* string on the tag's text and strip both sides of the cut
LoopBody ==
    /\ pc = "loop"
    /\ i <= Len(tags)
    /\ Iterate(ExtendWithTag(tokens, TagValue(tags[i])),
               SplitOnce(string, tags[i]),
               RStrip(SplitOnce(string, tags[i])[1]))
    /\ UNCHANGED <<filename, tags, anime, word, variant, verdict>>

\* after the loop: if string: to_tokenise.append(string)
LoopExit ==
    /\ pc = "loop"
    /\ i > Len(tags)
    /\ to_tokenise' = IF string # <<>> THEN Append(to_tokenise, string) ELSE to_tokenise
    /\ pc' = "title"
    /\ UNCHANGED <<filename, string, tags, i, tokens, anime, word, variant, verdict>>

\* TitleTokens without the second episode
TitleTokensFirstEpisode(m) == <<Title(m.name), EpisodeNumber(ToInt(m.episode))>>

\* the tokens a match m of the pattern adds
TitleTokens(m) ==
    <<Title(m.name), EpisodeNumber(ToInt(m.episode))>>
    \o (IF m.has_second THEN <<EpisodeNumber(ToInt(m.second_episode))>> ELSE <<>>)

\* one: len(to_tokenise) == 1; m: the match against to_tokenise[0]
EmitTitle(one, m) ==
    IF one /\ m.matched
    THEN /\ tokens' = tokens \o TitleTokens(m)
         /\ to_tokenise' = <<>>
    ELSE UNCHANGED <<tokens, to_tokenise>>

\* if len(to_tokenise) == 1: match the title/episode pattern; return
TitleEpisode ==
    /\ pc = "title"
    /\ EmitTitle(Len(to_tokenise) = 1, MatchTitle(to_tokenise[1]))
    /\ pc' = "done"
    /\ UNCHANGED <<filename, string, tags, i, anime, word, variant, verdict>>

Next == FindTags \/ LoopBody \/ LoopExit \/ TitleEpisode

-----------------------------------------------------------------------------
(* is_anime *)

\* (\[.+])+\.([^.]+)$ at the start of r.  The extension has no '.', so the
\* '.' before it is the last one of r; the ']' of the last tag is just before
\* it; '.' matches anything but a newline, so any run of three or more
\* characters from '[' to that ']' is one repetition of the tag group.
RestMatches(r) ==
    LET dots == {k \in 1..Len(r) : r[k] = "."} IN
    /\ dots # {}
    /\ LET d == CHOOSE k \in dots : \A j \in dots : j <= k IN
       /\ d >= 4
       /\ d < Len(r)
       /\ r[1] = "["
       /\ r[d - 1] = "]"
       /\ \A k \in 1..(d - 1) : r[k] # "\n"

\* (.*?) after the first g characters: the shortest name, from n characters
\* up, after which the rest matches; -1 when there is none
RECURSIVE AnimeNameLen(_, _, _)
AnimeNameLen(s, g, n) ==
    IF g + n > Len(s) THEN -1
    ELSE IF RestMatches(Drop(s, g + n)) THEN n
    ELSE IF g + n = Len(s) \/ s[g + n + 1] = "\n" THEN -1
    ELSE AnimeNameLen(s, g, n + 1)

\* (\[[^]]+])? at the start of s: its length, 0 when it does not match
GroupLen(s) ==
    LET q == IF Len(s) >= 1 /\ s[1] = "[" THEN IndexFrom(s, "]", 2) ELSE 0 IN
    IF q >= 3 THEN q ELSE 0

AnimeNoGroup(s, n0) ==
    IF n0 >= 0 THEN [matched |-> TRUE, group |-> <<>>, name |-> SubSeq(s, 1, n0)]
    ELSE [matched |-> FALSE, group |-> <<>>, name |-> <<>>]

AnimeWithGroup(s, g, n1) ==
    IF n1 >= 0 THEN [matched |-> TRUE, group |-> SubSeq(s, 1, g),
                     name |-> SubSeq(s, g + 1, g + n1)]
    ELSE AnimeNoGroup(s, AnimeNameLen(s, 0, 0))

AnimeGroup(s, g) == AnimeWithGroup(s, g, IF g > 0 THEN AnimeNameLen(s, g, 0) ELSE -1)

\* ANIME_PATTERN.match(s): the optional leading group is tried first, and
\* given up only if nothing matches with it
AnimeMatch(s) == AnimeGroup(s, GroupLen(s))

IsAnime(s) == AnimeMatch(s).matched /\ Find(s, <<" ">>) # 0

IsAnimeCall ==
    /\ pc = "is_anime"
    /\ anime' = IsAnime(filename)
    /\ pc' = "returned"
    /\ UNCHANGED <<filename, string, tags, i, tokens, to_tokenise, word, variant, verdict>>

NextAnime == IsAnimeCall

-----------------------------------------------------------------------------
(* the four classifiers applied to a word *)

Classifiers(w) ==
    [audio |-> IsAudioTag(w), video |-> IsVideoTag(w),
     source |-> IsSourceTag(w), language |-> IsLanguageTag(w)]

ClassifyCall ==
    /\ pc = "classify"
    /\ verdict' = <<Classifiers(word), Classifiers(variant)>>
    /\ pc' = "classified"
    /\ UNCHANGED <<filename, string, tags, i, tokens, to_tokenise, anime, word, variant>>

NextWords == ClassifyCall

-----------------------------------------------------------------------------
(* inputs *)

\* the concatenations of exactly n of the pieces P
RECURSIVE ConcatsOf(_, _)
ConcatsOf(P, n) ==
    IF n = 0 THEN {<<>>}
    ELSE {x \o p : x \in ConcatsOf(P, n - 1), p \in P}

\* the concatenations of at most n of the pieces P
Concats(P, n) == UNION {ConcatsOf(P, k) : k \in 0..n}

InitTokenise(inputs) ==
    /\ filename \in inputs
    /\ string = filename
    /\ tags = <<>>
    /\ i = 1
    /\ tokens = <<>>
    /\ to_tokenise = <<>>
    /\ pc = "start"
    /\ anime = FALSE
    /\ word = <<>>
    /\ variant = <<>>
    /\ verdict = <<>>

\* brackets, blanks and text, character by character
MaxChars == 6
CharPieces == { <<"[">>, <<"]">>, <<" ">>, <<"a">>, <<"b","d">> }
Init == InitTokenise(Concats(CharPieces, MaxChars))
Spec == Init /\ [][Next]_vars

\* whole tags and the text between them
MaxTagPieces == 5
TagPieces == { <<"[","H","o","r","r","i","b","l","e","S","u","b","s","]">>, <<" ">>, <<"S","h","o","w"," ","-"," ","0","5">>, <<"[","7","2","0","p","]">>, <<"[","b","d"," ","5",".","1","]">> }
InitTags == InitTokenise(Concats(TagPieces, MaxTagPieces))
SpecTags == InitTags /\ [][Next]_vars

\* the special cases of a tag's value: whole tags and text, in any order
MaxSpecialParts == 3
SpecialValues == { <<"1","a","2","B","3","c","4","D">>, <<"1","a","2","B","3","c","4","G">>, <<"1","2","3","4","5","6","7","p">>, <<"1","a","2","B","3","c","4">>, <<"1","a","2","B","3","c","4","D","5">>,
                   <<"N","o","o","b","S","u","b","s">>, <<"v","1","2","3","4","5","6","7">>, <<"D","u","a","l"," ","A","u","d","i","o">> }
SpecialParts == {<<"[">> \o v \o <<"]">> : v \in SpecialValues} \cup { <<" ">>, <<"x">> }
InitSpecial == InitTokenise(Concats(SpecialParts, MaxSpecialParts))
SpecSpecial == InitSpecial /\ [][Next]_vars

\* one generic tag: words joined by delimiters
MaxWords == 2
GenericWords == { <<"b","d">>, <<"7","2","0","p">>, <<"d","t","s","-","e","s">>, <<"e","n">>, <<"z","z">> }
RECURSIVE GenericValuesOf(_)
GenericValuesOf(n) ==
    IF n = 1 THEN GenericWords
    ELSE {v \o <<Delimiters[k]>> \o w :
            v \in GenericValuesOf(n - 1), k \in 1..Len(Delimiters), w \in GenericWords}
GenericValues(n) == UNION {GenericValuesOf(k) : k \in 1..n}
InitGeneric ==
    InitTokenise({pre \o <<"[">> \o v \o <<"]">> :
                    pre \in {<<>>, <<"[","F","F","F","]">>}, v \in GenericValues(MaxWords)})
SpecGeneric == InitGeneric /\ [][Next]_vars

\* the title/episode pattern
MaxTitlePieces == 5
TitlePieces == { <<"A"," ","-"," ">>, <<"0","5">>, <<"E">>, <<"+">>, <<"v">>, <<" ","E","N","D">>, <<"[","b","d","]">> }
InitTitle == InitTokenise(Concats(TitlePieces, MaxTitlePieces))
SpecTitle == InitTitle /\ [][Next]_vars

\* is_anime
MaxAnimeLen == 7
AnimeChars == { <<"[">>, <<"]">>, <<" ">>, <<".">>, <<"a">> }
InitAnime ==
    /\ filename \in Concats(AnimeChars, MaxAnimeLen)
    /\ string = <<>>
    /\ tags = <<>>
    /\ i = 1
    /\ tokens = <<>>
    /\ to_tokenise = <<>>
    /\ pc = "is_anime"
    /\ anime = FALSE
    /\ word = <<>>
    /\ variant = <<>>
    /\ verdict = <<>>
SpecAnime == InitAnime /\ [][NextAnime]_vars

\* the classifiers: a word and a variant of it that differs in letter case only
MaxWordLen == 3
WordChars == {"1", "p", "P", "x", "X", "b", "B", "d", "D"}
RECURSIVE WordsOf(_)
WordsOf(n) ==
    IF n = 0 THEN {<<>>}
    ELSE {Append(w, c) : w \in WordsOf(n - 1), c \in WordChars}
Words(n) == UNION {WordsOf(k) : k \in 0..n}
InitWords ==
    /\ word \in Words(MaxWordLen)
    /\ variant \in {v \in Words(MaxWordLen) : Len(v) = Len(word) /\ Lower(v) = Lower(word)}
    /\ filename = <<>>
    /\ string = <<>>
    /\ tags = <<>>
    /\ i = 1
    /\ tokens = <<>>
    /\ to_tokenise = <<>>
    /\ pc = "classify"
    /\ anime = FALSE
    /\ verdict = <<>>
SpecWords == InitWords /\ [][NextWords]_vars

-----------------------------------------------------------------------------
(* properties *)

\* what the regular expression of the loop found in the argument
Spans == FindSpans(filename, 1)

\* the remaining string is a suffix of the argument: the index in the
\* argument of its first character, less one
Offset == Len(filename) - Len(string)

Strip(s) == LStrip(RStrip(s))

IsStripped(s) == s # <<>> /\ s[1] \notin Whitespace /\ s[Len(s)] \notin Whitespace

\* the text of s outside the spans, cut at each span: before the first, between
\* consecutive ones and after the last
Runs(s, spans) ==
    [k \in 1..(Len(spans) + 1) |->
        SubSeq(s,
               IF k = 1 THEN 1 ELSE spans[k - 1][2] + 1,
               IF k = Len(spans) + 1 THEN Len(s) ELSE spans[k][1] - 1)]

NonEmpty(s) == s # <<>>

StrippedRuns(s, spans) ==
    SelectSeq([k \in 1..(Len(spans) + 1) |-> Strip(Runs(s, spans)[k])], NonEmpty)

\* C1: _tokenise never raises, whatever the string: neither the RuntimeError of
\* _tokenise_tag nor the ValueError of unpacking the split escapes, the split on
\* the current tag always has exactly two parts, and what is returned is a
\* sequence of tokens and a sequence of residual segments.
NeverRaises ==
    /\ pc \in {"start", "loop", "title", "done"}
    /\ (pc = "loop" /\ i <= Len(tags)) => Len(SplitOnce(string, tags[i])) = 2
    /\ pc = "done" => /\ DOMAIN tokens = 1..Len(tokens)
                      /\ DOMAIN to_tokenise = 1..Len(to_tokenise)

\* a call that returned although the same unclassifiable tag occurred twice and
\* raised RuntimeError inside _tokenise_tag for every delimiter
RaiseCaughtTwice ==
    /\ pc = "done"
    /\ Len(tags) >= 2
    /\ tags[1] = tags[2]
    /\ \A k \in 1..Len(Delimiters) :
          TokeniseTag(SplitAll(TagValue(tags[1]), Delimiters[k])).raised
    /\ tokens = <<>>

\* C4: every residual segment _tokenise returns is non-empty and has neither
\* leading nor trailing whitespace.
ResidualsStripped ==
    pc = "done" => \A k \in 1..Len(to_tokenise) : IsStripped(to_tokenise[k])

\* C10: at each iteration the first occurrence of the tag's text in the
\* remaining string is the occurrence re.findall found, and the residual
\* segments before the title/episode step are, in order, the non-empty
\* whitespace-stripped runs of the argument outside the tags found.
ResidualsAreTheStrippedRuns ==
    /\ (pc = "loop" /\ i <= Len(tags)) =>
          /\ Find(string, tags[i]) > 0
          /\ Offset + Find(string, tags[i]) = Spans[i][1]
    /\ pc = "title" => to_tokenise = StrippedRuns(filename, Spans)

\* the tokens of the first n tags, each classified on its own, in order
RECURSIVE TagTokens(_, _)
TagTokens(found, n) ==
    IF n = 0 THEN <<>>
    ELSE TagTokens(found, n - 1) \o ExtendWithTag(<<>>, TagValue(found[n])).tokens

IsTitleToken(t) == t.type \in {"Title", "EpisodeNumber"}

\* the tokens of toks from index n + 1 on are a Title, then one or two
\* EpisodeNumbers, and nothing else
TitleSuffix(toks, n) ==
    /\ Len(toks) - n \in {2, 3}
    /\ toks[n + 1].type = "Title"
    /\ \A k \in (n + 2)..Len(toks) : toks[k].type = "EpisodeNumber"

\* C5: the tokens of the bracket tags are in the order of the tags in the
\* string, each tag's tokens in the order of its words, none merged, reordered
\* or dropped as a duplicate; Title and EpisodeNumber tokens come after all of
\* them; "[HorribleSubs] Show - 05 [720p]" gives exactly SubGroup, VideoQuality,
\* Title, EpisodeNumber(5).
TokensInTagOrder ==
    /\ pc \in {"loop", "title"} =>
          tokens = TagTokens(FindAll(filename), i - 1)
    /\ pc = "done" =>
          /\ SubSeq(tokens, 1, Len(TagTokens(FindAll(filename), Len(tags))))
                = TagTokens(FindAll(filename), Len(tags))
          /\ \A k \in 1..Len(TagTokens(FindAll(filename), Len(tags))) :
                ~IsTitleToken(tokens[k])
          /\ \/ Len(tokens) = Len(TagTokens(FindAll(filename), Len(tags)))
             \/ TitleSuffix(tokens, Len(TagTokens(FindAll(filename), Len(tags))))
    /\ (pc = "done" /\ filename = <<"[","H","o","r","r","i","b","l","e","S","u","b","s","]"," ","S","h","o","w"," ","-"," ","0","5"," ","[","7","2","0","p","]">>) =>
          tokens = << SubGroup(<<"H","o","r","r","i","b","l","e","S","u","b","s">>), VideoQuality(<<"7","2","0","p">>),
                      Title(<<"S","h","o","w">>), EpisodeNumber(5) >>

\* two equal tags gave two equal tokens, followed by the title and the episode
DuplicateTagsThenTitle ==
    /\ pc = "done"
    /\ filename = <<"[","7","2","0","p","]","[","7","2","0","p","]","S","h","o","w"," ","-"," ","0","5">>
    /\ tokens = << VideoQuality(<<"7","2","0","p">>), VideoQuality(<<"7","2","0","p">>),
                   Title(<<"S","h","o","w">>), EpisodeNumber(5) >>

\* a value that reaches the generic path
IsGeneric(v) ==
    /\ v \notin KNOWN_GROUPS
    /\ ~(Len(v) = 8 /\ \A k \in 1..Len(v) : v[k] \in hexdigits)
    /\ v # <<"M","u","l","t","i","p","l","e"," ","S","u","b","t","i","t","l","e">>
    /\ v # <<"D","u","a","l"," ","A","u","d","i","o">>
    /\ ~IsNoise(v)

Classifies(w) == IsAudioTag(w) \/ IsVideoTag(w) \/ IsSourceTag(w) \/ IsLanguageTag(w)

\* the token of a word that classifies: audio, then video, then source, then language
WordToken(w) ==
    CASE IsAudioTag(w) -> AudioQuality(w)
      [] ~IsAudioTag(w) /\ IsVideoTag(w) -> VideoQuality(w)
      [] ~IsAudioTag(w) /\ ~IsVideoTag(w) /\ IsSourceTag(w) -> Source(w)
      [] OTHER -> AudioLanguage(w)

\* the delimiters whose split of v has only words that classify
FullSplits(v) ==
    {k \in 1..Len(Delimiters) :
        \A j \in 1..Len(SplitAll(v, Delimiters[k])) :
            Classifies(SplitAll(v, Delimiters[k])[j])}

FirstOf(ks) == CHOOSE k \in ks : \A j \in ks : k <= j

\* one token per word of the first full split, none when there is no full split
GenericTokens(v) ==
    IF FullSplits(v) = {} THEN <<>>
    ELSE [j \in 1..Len(SplitAll(v, Delimiters[FirstOf(FullSplits(v))])) |->
             WordToken(SplitAll(v, Delimiters[FirstOf(FullSplits(v))])[j])]

\* C6: a tag on the generic path adds exactly the tokens of the first delimiter,
\* in the order ' ', ',', '-', '.', '_', whose words all classify, one token per
\* word in word order; it adds nothing when no delimiter does, so no token of a
\* split that failed part-way reaches the result.
GenericAllOrNothing ==
    [][(pc = "loop" /\ i <= Len(tags) /\ IsGeneric(TagValue(tags[i])))
          => tokens' = tokens \o GenericTokens(TagValue(tags[i]))]_vars

\* "dts-es.bd": the split on '-' classifies "dts" and fails on "es.bd"; the split
\* on '.' is the first full one, and only its tokens are in the result
LaterDelimiterWins ==
    /\ pc = "loop"
    /\ i = 2
    /\ tags = << <<"[","d","t","s","-","e","s",".","b","d","]">> >>
    /\ tokens = << AudioQuality(<<"d","t","s","-","e","s">>), Source(<<"b","d">>) >>

\* the state of an automaton for E?\d+(\+E?\d+)?(v\d+)?( END)?$ after reading
\* c in state q; 0 is the dead state.  1 start, 2 after E, 3 in the episode,
\* 4 after +, 5 after +E, 6 in the second episode, 7 after v, 8 in the version,
\* 9..12 in " END", 13 after the newline that may end the string
TailStep(q, c) ==
    CASE q = 1 /\ c = "E" -> 2
      [] q \in {1, 2, 3} /\ c \in Digits -> 3
      [] q = 3 /\ c = "+" -> 4
      [] q = 4 /\ c = "E" -> 5
      [] q \in {4, 5, 6} /\ c \in Digits -> 6
      [] q \in {3, 6} /\ c = "v" -> 7
      [] q \in {7, 8} /\ c \in Digits -> 8
      [] q \in {3, 6, 8} /\ c = " " -> 9
      [] q = 9 /\ c = "E" -> 10
      [] q = 10 /\ c = "N" -> 11
      [] q = 11 /\ c = "D" -> 12
      [] q \in {3, 6, 8, 12} /\ c = "\n" -> 13
      [] OTHER -> 0

\* the states the automaton is in after each character of t
RECURSIVE TailStates(_, _, _)
TailStates(t, k, q) ==
    IF k > Len(t) THEN <<>>
    ELSE <<TailStep(q, t[k])>> \o TailStates(t, k + 1, TailStep(q, t[k]))

TailAccepted(t) ==
    t # <<>> /\ TailStates(t, 1, 1)[Len(t)] \in {3, 6, 8, 12, 13}

\* the characters of t read into state q, in order
ReadInto(t, q) ==
    LET at == {k \in 1..Len(t) : TailStates(t, 1, 1)[k] = q}
        first == CHOOSE k \in at : \A j \in at : k <= j
    IN  [k \in 1..Cardinality(at) |-> t[first + k - 1]]

\* the lengths a name of s can have: not empty, no newline, then ' - ' and a
\* tail the pattern accepts
NameLengths(s) ==
    {n \in 1..Len(s) :
        /\ \A k \in 1..n : s[k] # "\n"
        /\ OccursAt(s, <<" ","-"," ">>, n + 1)
        /\ TailAccepted(Drop(s, n + 3))}

\* the tokens the pattern gives for s with a name of n characters
TitleTokensFor(s, n) ==
    << Title(SubSeq(s, 1, n)), EpisodeNumber(ToInt(ReadInto(Drop(s, n + 3), 3))) >>
    \o (IF \E k \in 1..(Len(s) - n - 3) : TailStates(Drop(s, n + 3), 1, 1)[k] = 6
        THEN << EpisodeNumber(ToInt(ReadInto(Drop(s, n + 3), 6))) >>
        ELSE <<>>)

\* C7: if there is exactly one residual segment and it matches
\* <name> - [E]<episode>[+[E]<second_episode>][v<version>][ END], the tokens end
\* with Title(name), EpisodeNumber(episode) and, only with a second episode,
\* EpisodeNumber(second_episode), and the residual list becomes empty; in every
\* other case no Title or EpisodeNumber token is added and the residual list is
\* unchanged.  Every EpisodeNumber carries a non-negative integer.
TitleEpisodeExtraction ==
    [][/\ \A k \in 1..Len(tokens) : ~IsTitleToken(tokens[k])
       /\ pc = "title" =>
            IF Len(to_tokenise) = 1 /\ NameLengths(to_tokenise[1]) # {}
            THEN /\ tokens' = tokens \o TitleTokensFor(to_tokenise[1],
                                                       FirstOf(NameLengths(to_tokenise[1])))
                 /\ to_tokenise' = <<>>
            ELSE /\ tokens' = tokens
                 /\ to_tokenise' = to_tokenise
       /\ \A k \in 1..Len(tokens') :
             tokens'[k].type = "EpisodeNumber" => tokens'[k].value \in Nat
       /\ (pc = "title" /\ to_tokenise = << <<"A"," ","-"," ","E","0","5","+","0","5">> >>) =>
             tokens' = tokens \o << Title(<<"A">>), EpisodeNumber(5), EpisodeNumber(5) >>
      ]_vars

\* a title with two episodes: END leaves no token and the residual list is empty
TwoEpisodesAndEnd ==
    /\ pc = "done"
    /\ filename = <<"A"," ","-"," ","0","5","+","0","5"," ","E","N","D">>
    /\ tokens = << Title(<<"A">>), EpisodeNumber(5), EpisodeNumber(5) >>
    /\ to_tokenise = <<>>

IsHashValue(v) ==
    v \notin KNOWN_GROUPS /\ Len(v) = 8 /\ \A k \in 1..Len(v) : v[k] \in hexdigits

EightWithNonHex(v) == Len(v) = 8 /\ \E k \in 1..Len(v) : v[k] \notin hexdigits

\* every Hash token of toks carries exactly 8 hexadecimal characters
HashPayloads(toks) ==
    \A k \in 1..Len(toks) :
        toks[k].type = "Hash" =>
            Len(toks[k].value) = 8 /\ \A j \in 1..8 : toks[k].value[j] \in hexdigits

\* C8 as stated: a tag adds exactly Hash(v) iff v is no known group and is 8
\* hexadecimal characters; every Hash token carries 8 hexadecimal characters;
\* an 8-character value with a non-hex character adds no Hash token and is
\* handled by the generic path.
HashOrGenericPath ==
    [][(pc = "loop" /\ i <= Len(tags)) =>
          /\ (tokens' = Append(tokens, Hash(TagValue(tags[i]))))
                <=> IsHashValue(TagValue(tags[i]))
          /\ HashPayloads(tokens')
          /\ EightWithNonHex(TagValue(tags[i])) =>
                tokens' = tokens \o GenericTokens(TagValue(tags[i]))
      ]_vars

\* C8 as amended: the same, but an 8-character value with a non-hex character
\* is handled by the generic path only if it is no known group and no noise
\* pattern; a known group adds its SubGroup token and a noise pattern nothing.
HashOrLaterCases ==
    [][(pc = "loop" /\ i <= Len(tags)) =>
          /\ (tokens' = Append(tokens, Hash(TagValue(tags[i]))))
                <=> IsHashValue(TagValue(tags[i]))
          /\ HashPayloads(tokens')
          /\ EightWithNonHex(TagValue(tags[i])) =>
                tokens' = tokens \o
                    (IF TagValue(tags[i]) \in KNOWN_GROUPS
                     THEN << SubGroup(TagValue(tags[i])) >>
                     ELSE IF IsNoise(TagValue(tags[i])) THEN <<>>
                     ELSE GenericTokens(TagValue(tags[i])))
      ]_vars

\* a hash in both letter cases, then an 8-character value with a 'p' that the
\* generic path classified
HashThenEightNonHex ==
    /\ pc = "loop"
    /\ i = 3
    /\ tags = << <<"[","1","a","2","B","3","c","4","D","]">>, <<"[","1","2","3","4","5","6","7","p","]">> >>
    /\ tokens = << Hash(<<"1","a","2","B","3","c","4","D">>), VideoQuality(<<"1","2","3","4","5","6","7","p">>) >>

\* C9: a tag whose value is exactly "Dual Audio" adds AudioLanguage("EN") then
\* AudioLanguage("JP") and nothing else, whatever surrounds it; it does not go to
\* the generic path.
DualAudioTokens ==
    [][(pc = "loop" /\ i <= Len(tags) /\ TagValue(tags[i]) = <<"D","u","a","l"," ","A","u","d","i","o">>) =>
          tokens' = tokens \o << AudioLanguage(<<"E","N">>), AudioLanguage(<<"J","P">>) >>
      ]_vars

\* "Dual Audio" after text and a hash tag
DualAudioAfterHash ==
    /\ pc = "loop"
    /\ i = 3
    /\ filename = <<"x","[","1","a","2","B","3","c","4","D","]","[","D","u","a","l"," ","A","u","d","i","o","]">>
    /\ tokens = << Hash(<<"1","a","2","B","3","c","4","D">>), AudioLanguage(<<"E","N">>), AudioLanguage(<<"J","P">>) >>

\* C2: is_anime returns false for every filename whose name portion, the text
\* between the optional leading group and the tags, contains no space.
NoSpaceInNameRejected ==
    (pc = "returned" /\ AnimeMatch(filename).matched
        /\ Find(AnimeMatch(filename).name, <<" ">>) = 0)
    => anime = FALSE

\* C3: each of the four classifiers returns the same for a word and for the
\* word in another letter case.
ClassifiersIgnoreCase ==
    pc = "classified" => verdict[1] = verdict[2]
=============================================================================
